---- MODULE Spec2Model ----
(***************************************************************************)
(* Model of the ARISU host-side adapter: the capture job actor             *)
(* (src/screen.rs, src/screen/display.rs, src/screen/sound.rs), the frame  *)
(* relay between the capture callback and the protocol consumer            *)
(* (src/screen/display.rs), the input translator (src/input.rs) and the    *)
(* sound backend (src/screen/sound.rs).                                    *)
(*                                                                         *)
(* Specifications defined over the same variables:                         *)
(*   Spec       the job actor, its bounded queue and its callers;          *)
(*   RelaySpec  one capture handle: triple buffer, Notify, producer        *)
(*              callback and consumer next_update, plus the handle's drop  *)
(*              and the actor's CaptureStop;                               *)
(*   BurstSpec  layouts large enough to fill the queue;                    *)
(*   StopSpec   CaptureStop jobs for handles that are gone;                *)
(*   InputSpec  keyboard and mouse events through the input translator;    *)
(*   ScaleSpec  pointer moves over the 16-bit range during resizes;        *)
(*   ResizeSpec readers and writers of ScreenSize;                         *)
(*   SoundSpec  the sound backend's start and stop, and audio batches;     *)
(*   CounterSpec the capture interval cell, its writers and its reader;    *)
(*   FrameSpec  buffer sizing, sample geometry and the bitmap handed out;  *)
(*   LayoutSpec layouts with monitors of any u32 dimensions;               *)
(*   PairSpec   two capture handles side by side;                          *)
(*   LoopSpec   the job loop, the senders of its channel and their drops.  *)
(***************************************************************************)
EXTENDS Integers, Sequences, FiniteSets, TLC

\* ------------------------------------------------------------------------
\* Bounds of the model (not program constants)
\* ------------------------------------------------------------------------
\* calls the protocol server makes (size, updates, request_layout, sound
\* start and stop together)
MaxCalls == 4
\* monitors in one layout PDU
MaxMonitors == 1
\* monitors in one layout PDU of BurstSpec
MaxBurst == 10
\* samples delivered to one DisplayCaptureDelegate
MaxFrames == 3
\* formats in one ClientAudioFormatPdu
MaxFormats == 2
\* sample batches the capture session delivers to its audio outputs
MaxBatches == 3
\* instants of the clock of CounterSpec
MaxTime == 3
\* dirty rectangles of one sample
MaxRects == 2

\* ------------------------------------------------------------------------
\* Program constants
\* ------------------------------------------------------------------------
\* mpsc::channel::<ScreenJob>(10)
QueueCap == 10
\* triple_buffer: three slots
NumSlots == 3
\* u16::MAX
MaxU16 == 65535

\* resolutions the display and the client may have
Sizes == { <<1280, 720>>, <<2560, 1440>> }

VARIABLES
    queue,          \* screen_chnnal: jobs accepted and not yet received
    display_size,   \* watch channel value: ScreenSize {client, server}
    version,        \* watch channel version: number of change notifications
    stream,         \* SCStream output handlers: [screen: set of indices, audio: count]
    nextIndex,      \* next output index add_output_handler returns
    handle,         \* DisplayUpdates per output index: "none" | "live" | "dropped"
    sizeReply,      \* what the last size() caller was sent
    startReply,     \* what the last updates() caller was sent
    calls,          \* calls the protocol server made so far (bounds the model)
    lastHandled,    \* history: the job the actor handled last and the state before it
    display0,       \* history: display.width()/height() at construction
    relay,          \* per output index: triple buffer, Notify, producer, consumer
    hist,           \* history of the channel and of the ScreenSize values held
    input,          \* InputHandler: modifiers, held button, pointer, last effect
    sound,          \* SoundServer: outcome of the last start() and of all so far
    counter,        \* the two IntervalCounter families and the clock
    capture,        \* one captured sample from dirty rects to BitmapUpdate
    loop            \* the actor's job loop and who holds a Sender of its channel

vars == << queue, display_size, version, stream, nextIndex, handle, sizeReply,
           startReply, calls, lastHandled, display0, relay, hist, input, sound,
           counter, capture, loop >>

actorVars == << display_size, version, stream, nextIndex >>

Indices == 1..MaxCalls

\* ------------------------------------------------------------------------
\* Jobs (display::Job and sound::Job wrapped in ScreenJob)
\* ------------------------------------------------------------------------
Job(kind, w, h, index) == [kind |-> kind, w |-> w, h |-> h, index |-> index]

GetSizeJob == Job("GetSize", 0, 0, 0)
SetSizeJob(w, h) == Job("SetSize", w, h, 0)
CaptureStartJob == Job("CaptureStart", 0, 0, 0)
CaptureStopJob(index) == Job("CaptureStop", 0, 0, index)
SoundStartJob == Job("SoundStart", 0, 0, 0)
SoundStopJob == Job("SoundStop", 0, 0, 0)

\* mutant of TrySend: the job is put in front of the waiting ones
TrySend_Front(q, job) == IF Len(q) < QueueCap THEN << job >> \o q ELSE q

\* mpsc::Sender::try_send: the job is accepted iff the channel has room,
\* otherwise it is returned to the caller as Err(Full)
TrySend(q, job) == IF Len(q) < QueueCap THEN Append(q, job) ELSE q

\* request_layout: one try_send per monitor of the layout
RECURSIVE TrySendEach(_, _)
TrySendEach(q, jobs) ==
    IF jobs = << >> THEN q
    ELSE TrySendEach(TrySend(q, Head(jobs)), Tail(jobs))

\* history of the channel: tickets[k] is the order number the k-th queued
\* job got when it was accepted, accepted the number of jobs accepted so
\* far, last the ticket of the job handled last, discarded the jobs a full
\* channel refused with what the sender did about it ("logged", "ignored");
\* held is every ScreenSize value the watch channel has held
NewHist(size) ==
    [ tickets |-> << >>, accepted |-> 0, last |-> 0, discarded |-> {},
      held |-> {size} ]

\* a send(..).await that completed
HistSent(h) ==
    [h EXCEPT !.tickets = Append(@, h.accepted + 1), !.accepted = @ + 1]

\* try_send of the jobs, one after the other; how is what the sender does
\* with an Err(Full)
HistTrySent(h, q, jobs, how) ==
    LET n == Len(jobs)
        tk == TrySendEach(h.tickets, [k \in 1..n |-> h.accepted + k])
        m == Len(tk) - Len(h.tickets)
    IN  [h EXCEPT !.tickets = tk,
                  !.accepted = @ + m,
                  !.discarded = @ \cup { [job |-> jobs[k], how |-> how] :
                                            k \in (m + 1)..n }]

\* recv() returned the job at the head
HistReceived(h) == [h EXCEPT !.tickets = Tail(@), !.last = Head(h.tickets)]

\* ------------------------------------------------------------------------
\* Frame relay: triple_buffer::triple_buffer + Arc<Notify>
\* ------------------------------------------------------------------------
NoSlot == NumSlots

Slot(frame, partial) == [frame |-> frame, partial |-> partial]

\* triple_buffer(&initial): three clones of the initial value; the input
\* owns slot 1, the output slot 2, the back buffer is slot 0 and clean
NewTripleBuffer ==
    [ input |-> 1, back |-> 0, output |-> 2, dirty |-> FALSE,
      slots |-> [s \in 0..(NumSlots - 1) |-> Slot(0, FALSE)] ]

NoRelay ==
    [ exists |-> FALSE, tb |-> NewTripleBuffer, prodPc |-> "idle",
      consPc |-> "idle", frames |-> 0, published |-> 0, handed |-> NoSlot,
      returned |-> << >> ]

NewRelay == [NoRelay EXCEPT !.exists = TRUE]

\* ------------------------------------------------------------------------
\* Input translator state: InputHandler::new
\* ------------------------------------------------------------------------
\* struct Modifiers, Default
NoModifiers ==
    [shift |-> FALSE, command |-> FALSE, option |-> FALSE, control |-> FALSE]

\* a CGPoint coordinate: the f64 quotient of a u32 numerator, kept as the
\* two 16-bit halves of the numerator, and a u16 denominator
Coord(hi, lo, den) == [hi |-> hi, lo |-> lo, den |-> den]

\* CGPoint { x: 0.0, y: 0.0 }
Origin == [x |-> Coord(0, 0, 1), y |-> Coord(0, 0, 1)]

NoSize == [client |-> <<0, 0>>, server |-> <<0, 0>>]

\* what the last keyboard()/mouse() call did to the system:
\*   "key"     a keyboard event was posted (code, down, flags, unicode)
\*   "mouse"   a mouse event was posted (type, button, point)
\*   "scroll"  a scroll wheel event was posted (value)
\*   "cursor"  CGDisplayMoveCursorToPoint(point), no event
\*   "error"   convert_keyboard_event returned Err, logged, nothing posted
\*   "failed"  the mouse event could not be created, logged
\*   "ignored" unknown mouse event kind, logged
Effect(kind, type, code, down, flags, unicode, button, point, value) ==
    [ kind |-> kind, type |-> type, code |-> code, down |-> down,
      flags |-> flags, unicode |-> unicode, button |-> button,
      point |-> point, value |-> value ]

NoEffect(kind) == Effect(kind, "None", 0, FALSE, {}, 0, "None", Origin, 0)

KeyEffect(code, down, flags, unicode) ==
    Effect("key", "None", code, down, flags, unicode, "None", Origin, 0)

MouseEffect(type, button, point) ==
    Effect("mouse", type, 0, FALSE, {}, 0, button, point, 0)

CursorEffect(point) ==
    Effect("cursor", "None", 0, FALSE, {}, 0, "None", point, 0)

ScrollEffect(value) ==
    Effect("scroll", "None", 0, FALSE, {}, 0, "None", Origin, value)

\* InputHandler::new; seen is the ScreenSize the last Move borrowed, moved
\* and prev the inputs of the last Move and of the one before, last_button
\* the last button event (history)
NoMove == [x |-> 0, y |-> 0, size |-> NoSize, point |-> Origin]

NewInput ==
    [ last_mouse_point |-> Origin,
      down_mouse_button |-> "None",
      modifier_state |-> NoModifiers,
      seen |-> NoSize,
      effect |-> NoEffect("none"),
      before |-> [modifier_state |-> NoModifiers, down_mouse_button |-> "None",
                  last_mouse_point |-> Origin],
      event |-> [kind |-> "None", code |-> 0, extended |-> FALSE],
      last_button |-> [button |-> "None", pressed |-> FALSE],
      moved |-> NoMove,
      prev |-> NoMove ]

\* convert_non_unicode_key: the scan codes with a virtual key of their own
ScanCodeTable ==
    <<14, FALSE>> :> 51 @@ <<91, TRUE>> :> 55 @@ <<29, FALSE>> :> 59 @@
    <<42, FALSE>> :> 56 @@ <<56, FALSE>> :> 58 @@ <<28, FALSE>> :> 36 @@
    <<16, FALSE>> :> 12 @@ <<17, FALSE>> :> 13 @@ <<18, FALSE>> :> 14 @@
    <<19, FALSE>> :> 15 @@ <<20, FALSE>> :> 17 @@ <<21, FALSE>> :> 16 @@
    <<22, FALSE>> :> 32 @@ <<23, FALSE>> :> 34 @@ <<24, FALSE>> :> 31 @@
    <<25, FALSE>> :> 35 @@ <<30, FALSE>> :> 0 @@ <<31, FALSE>> :> 1 @@
    <<32, FALSE>> :> 2 @@ <<33, FALSE>> :> 3 @@ <<34, FALSE>> :> 5 @@
    <<35, FALSE>> :> 4 @@ <<36, FALSE>> :> 38 @@ <<37, FALSE>> :> 40 @@
    <<38, FALSE>> :> 37 @@ <<39, FALSE>> :> 41 @@ <<44, FALSE>> :> 6 @@
    <<45, FALSE>> :> 7 @@ <<46, FALSE>> :> 8 @@ <<47, FALSE>> :> 9 @@
    <<48, FALSE>> :> 11 @@ <<49, FALSE>> :> 45 @@ <<50, FALSE>> :> 46 @@
    <<59, FALSE>> :> 122 @@ <<60, FALSE>> :> 120 @@ <<61, FALSE>> :> 99 @@
    <<62, FALSE>> :> 118 @@ <<63, FALSE>> :> 96 @@ <<64, FALSE>> :> 97 @@
    <<65, FALSE>> :> 98 @@ <<66, FALSE>> :> 100 @@ <<67, FALSE>> :> 101 @@
    <<68, FALSE>> :> 109 @@ <<87, FALSE>> :> 103 @@ <<88, FALSE>> :> 111 @@
    <<15, FALSE>> :> 48 @@ <<75, TRUE>> :> 123 @@ <<72, TRUE>> :> 126 @@
    <<80, TRUE>> :> 125 @@ <<77, TRUE>> :> 124 @@ <<83, TRUE>> :> 117 @@
    <<71, TRUE>> :> 115 @@ <<79, TRUE>> :> 119 @@ <<73, TRUE>> :> 116 @@
    <<81, TRUE>> :> 121 @@ <<1, FALSE>> :> 53 @@ <<2, FALSE>> :> 18 @@
    <<3, FALSE>> :> 19 @@ <<4, FALSE>> :> 20 @@ <<5, FALSE>> :> 21 @@
    <<6, FALSE>> :> 22 @@ <<7, FALSE>> :> 23 @@ <<8, FALSE>> :> 24 @@
    <<9, FALSE>> :> 25 @@ <<10, FALSE>> :> 26 @@ <<11, FALSE>> :> 27

\* PrintScr, ScrollLock, Break: return None
UnsupportedKeys == { <<55, TRUE>>, <<70, FALSE>>, <<69, FALSE>> }

NoKey == -1

\* the four arms of convert_non_unicode_key that assign a modifier field:
\* LWin (extended), LControl, LShift, LMenu
ModifierKeys ==
    <<91, TRUE>> :> "command" @@ <<29, FALSE>> :> "control" @@
    <<42, FALSE>> :> "shift" @@ <<56, FALSE>> :> "option"

\* convert_non_unicode_key with modifier arms that only ever set the flag
ConvertNonUnicodeKey_Sticky(code, extended, pressed, modifier) ==
    LET k == <<code, extended>>
    IN  [ key |-> IF k \in UnsupportedKeys THEN NoKey
                  ELSE IF k \in DOMAIN ScanCodeTable THEN ScanCodeTable[k]
                  ELSE code,
          modifier |->
              IF k \in DOMAIN ModifierKeys
              THEN [modifier EXCEPT ![ModifierKeys[k]] = @ \/ pressed]
              ELSE modifier ]

\* mutant of convert_non_unicode_key: the untranslatable keys fall through
\* to the identity arm
ConvertNonUnicodeKey_NoNone(code, extended, pressed, modifier) ==
    LET k == <<code, extended>>
    IN  [ key |-> IF k \in DOMAIN ScanCodeTable THEN ScanCodeTable[k]
                  ELSE code,
          modifier |->
              IF k \in DOMAIN ModifierKeys
              THEN [modifier EXCEPT ![ModifierKeys[k]] = pressed]
              ELSE modifier ]

\* convert_non_unicode_key: the virtual key (NoKey for None) and the
\* modifier state after the call
ConvertNonUnicodeKey(code, extended, pressed, modifier) ==
    LET k == <<code, extended>>
    IN  [ key |-> IF k \in UnsupportedKeys THEN NoKey
                  ELSE IF k \in DOMAIN ScanCodeTable THEN ScanCodeTable[k]
                  ELSE code,
          modifier |->
              IF k \in DOMAIN ModifierKeys
              THEN [modifier EXCEPT ![ModifierKeys[k]] = pressed]
              ELSE modifier ]

\* apply_modifier_to_event: the CGEventFlags mask put on the event; set_flags
\* is not called for an empty mask
ApplyModifierToEvent(modifier) ==
    (IF modifier.command THEN {"MaskCommand"} ELSE {})
    \cup (IF modifier.control THEN {"MaskControl"} ELSE {})
    \cup (IF modifier.option THEN {"MaskAlternate"} ELSE {})
    \cup (IF modifier.shift THEN {"MaskShift"} ELSE {})

\* the product a * b of two 16-bit values as its two 16-bit halves
MulHalves(a, b) ==
    LET A == (a \div 256) * b
        B == (a % 256) * b
        C == A + (B \div 256)
    IN  [hi |-> C \div 256, lo |-> (C % 256) * 256 + (B % 256)]

\* mutant of MulU32: the product taken in the operands' own 16 bits
MulU32_Narrow(a, b) ==
    LET p == MulHalves(a, b) IN [hi |-> 0, lo |-> p.lo]

\* (x as u32 * server as u32): a u32 product
MulU32(a, b) ==
    LET p == MulHalves(a, b) IN [hi |-> p.hi % 65536, lo |-> p.lo]

\* Move: (v as u32 * server as u32) as f64 / client as f64
Scale(v, server, client) ==
    LET p == MulU32(v, server) IN Coord(p.hi, p.lo, client)

ScalePoint(x, y, screen_size) ==
    [ x |-> Scale(x, screen_size.server[1], screen_size.client[1]),
      y |-> Scale(y, screen_size.server[2], screen_size.client[2]) ]

\* the drag event type of a held button
DragType(button) ==
    IF button = "Left" THEN "LeftMouseDragged"
    ELSE IF button = "Center" THEN "OtherMouseDragged"
    ELSE "RightMouseDragged"

\* ------------------------------------------------------------------------
\* Sound server
\* ------------------------------------------------------------------------
\* wave formats a client may offer; PCM stands for the one AudioFormat of
\* get_formats, ADPCM for any other
Formats == {"PCM", "ADPCM"}

\* RdpsndServerHandler::get_formats
GetFormats == {"PCM"}

\* ClientAudioFormatPdu::formats
FormatLists == UNION { [1..n -> Formats] : n \in 0..MaxFormats }

\* Option<u16>
None == [some |-> FALSE, value |-> 0]
Some(v) == [some |-> TRUE, value |-> v]

\* SoundServer::choose_format: position of the first client format that
\* get_formats contains, None when there is none or it does not fit u16
ChooseFormat(client_formats) ==
    LET found == { n \in 0..(Len(client_formats) - 1) :
                     client_formats[n + 1] \in GetFormats }
    IN  IF found = {} THEN None
        ELSE LET n == CHOOSE k \in found : \A j \in found : k <= j
             IN  IF n <= MaxU16 THEN Some(n) ELSE None

\* a u32 as its two 16-bit halves
U32(hi, lo) == [hi |-> hi, lo |-> lo]

\* the step of AudioCaptureDelegate::ts
TsStep == 100

\* AtomicU32::fetch_add(step): the new value, wrapping at 2^32
FetchAdd(ts, step) ==
    LET lo == ts.lo + step
    IN  U32((ts.hi + (lo \div 65536)) % 65536, lo % 65536)

\* order of two u32 values
LessU32(a, b) == a.hi < b.hi \/ (a.hi = b.hi /\ a.lo < b.lo)

\* the batch no AudioCaptureDelegate has seen yet (history)
NoBatch == [after_stop |-> FALSE, delivered |-> 0, outputs |-> 0]

\* what the last SoundServer::start was given and did, and every
\* (supported, returned) pair seen so far (history); sender is
\* rdp_event_sender (set or not), ts[i] the timestamp of the i-th
\* AudioCaptureDelegate, sink the timestamps of the Wave events sent
NewSound ==
    [ called |-> FALSE, supported |-> FALSE, first |-> 0, ret |-> None,
      enqueued |-> 0, seen |-> {},
      sender |-> FALSE,
      ts |-> [i \in Indices |-> U32(0, 0)],
      sink |-> << >>,
      batches |-> 0,
      batch |-> NoBatch ]

\* ------------------------------------------------------------------------
\* IntervalCounter (src/counter.rs)
\* ------------------------------------------------------------------------
\* AtomicU64::new(1000000): the interval before any update, in microseconds
IntervalDefault == 1000000

\* writers of one interval cell: 0 is the counter main() built, i >= 1 the
\* clone made for output index i
Writers == 0..MaxCalls

\* IntervalCounter::new at instant t, with the clones CaptureStart makes of
\* it: #[derive(Clone)] copies last_time and shares the interval cell, and
\* the counter they are cloned from is never updated itself, so every clone
\* starts with last_time = t.  updates, lastAt and prevAt are history: the
\* number of updates (counted to 2) and the instants of the last two.
NewIntervalCounter(t) ==
    [ interval |-> IntervalDefault,
      last_time |-> [w \in Writers |-> t],
      updates |-> 0, lastAt |-> t, prevAt |-> t ]

\* IntervalCounter::update on writer w at instant now
IntervalUpdate(c, w, now) ==
    [c EXCEPT !.interval = now - c.last_time[w],
              !.last_time[w] = now,
              !.updates = IF @ < 2 THEN @ + 1 ELSE @,
              !.prevAt = c.lastAt, !.lastAt = now]

\* Interval::get
IntervalGet(c) == c.interval

\* main(): capture_counter and display_send_counter, built at instant 0;
\* read is what the last Interval::get returned
NewCounter ==
    [ now |-> 0,
      capture |-> NewIntervalCounter(0),
      send |-> NewIntervalCounter(0),
      read |-> [done |-> FALSE, value |-> 0, before |-> 0] ]

\* ------------------------------------------------------------------------
\* Captured sample (src/screen/display.rs)
\* ------------------------------------------------------------------------
\* a CGRect of dirty_rects, in pixels
Rect(x, y, w, h) == [x |-> x, y |-> y, width |-> w, height |-> h]

Min(a, b) == IF a <= b THEN a ELSE b
Max(a, b) == IF a >= b THEN a ELSE b

\* the fold over dirty_rects: (min_x, min_y, max_x, max_y) from the seed acc
RECURSIVE FoldRects(_, _)
FoldRects(acc, rects) ==
    IF rects = << >> THEN acc
    ELSE LET r == Head(rects)
         IN  FoldRects([ min_x |-> Min(acc.min_x, r.x),
                         min_y |-> Min(acc.min_y, r.y),
                         max_x |-> Max(acc.max_x, r.x + r.width),
                         max_y |-> Max(acc.max_y, r.y + r.height) ],
                       Tail(rects))

\* did_output_sample_buffer: the region handed to convert_buffer for a
\* complete sample with dirty rects and a pixel buffer of pbw x pbh
SampleRegion(rects, pbw, pbh) ==
    LET f == FoldRects([min_x |-> 0, min_y |-> 0, max_x |-> 0, max_y |-> 0], rects)
        width == f.max_x - f.min_x
        height == f.max_y - f.min_y
    IN  IF width = 0 \/ height = 0
        THEN Rect(0, 0, pbw, pbh)
        ELSE Rect(f.min_x, f.min_y, width, height)

\* struct CapturedData, with the length of data in place of the bytes;
\* written: convert_buffer has filled it
CapturedData(x, y, width, height, len, written) ==
    [ x |-> x, y |-> y, width |-> width, height |-> height, len |-> len,
      written |-> written ]

\* convert_buffer returning true: data_size bytes, geometry cast to u16
ConvertedData(region) ==
    CapturedData(region.x % 65536, region.y % 65536, region.width % 65536,
                 region.height % 65536, region.width * region.height * 4, TRUE)

\* a u16 product: panic with overflow checks, wrapped without
MulU16(a, b, overflow_checks) ==
    LET p == MulHalves(a, b)
    IN  [ panic |-> overflow_checks /\ p.hi > 0, value |-> p.lo ]

\* (4 * server.0 * server.1) as usize with u16 operands, left to right
SlotCapacity(server, overflow_checks) ==
    LET a == MulU16(4, server[1], overflow_checks)
        b == MulU16(a.value, server[2], overflow_checks)
    IN  [ panic |-> a.panic \/ b.panic, value |-> b.value ]

\* the BitmapUpdate next_update builds from the output slot: stride is
\* (4 * width) as usize with a u16 width
BitmapUpdate(data, overflow_checks) ==
    LET stride == MulU16(4, data.width, overflow_checks)
    IN  [ panic |-> stride.panic, x |-> data.x, y |-> data.y,
          width |-> data.width, height |-> data.height,
          stride |-> stride.value, len |-> data.len ]

\* nothing captured yet.  alloc: the capacity CaptureStart asked for;
\* sample: the dirty rects and pixel buffer of the last sample; data: the
\* CapturedData written for it; update: the BitmapUpdate made of it
NewCapture ==
    [ alloc |-> [done |-> FALSE, server |-> <<0, 0>>, panic |-> FALSE, value |-> 0],
      sample |-> [rects |-> << >>, pbw |-> 0, pbh |-> 0],
      data |-> CapturedData(0, 0, 0, 0, 0, FALSE),
      update |-> [ done |-> FALSE, panic |-> FALSE, x |-> 0, y |-> 0, width |-> 0,
                   height |-> 0, stride |-> 0, len |-> 0 ] ]

\* ------------------------------------------------------------------------
\* The job loop: the task ScreenCapture::new spawns
\* ------------------------------------------------------------------------
\* state: "running" (a job was received or the loop has just started),
\* "waiting" (recv() pending on an empty channel), "stopped" (recv()
\* returned None and the task returned Ok), "panicked" (a handler
\* panicked and the task was unwound); context: the ScreenCaptureContext
\* the task owns, with its job_sender, exists; callers: the ScreenCapture
\* and the backends cloned from it, with their job_sender, exist
NewLoop == [ state |-> "running", context |-> TRUE, callers |-> TRUE ]

\* ------------------------------------------------------------------------
\* Initial state: ScreenCapture::new
\* ------------------------------------------------------------------------
NoHandled ==
    [ kind |-> "None", w |-> 0, h |-> 0, index |-> 0,
      size |-> [client |-> <<0, 0>>, server |-> <<0, 0>>],
      version |-> 0, stream |-> [screen |-> {}, audio |-> 0],
      repeat |-> FALSE ]

\* repeat: the job handled before this one was the same job
Handled(job, size, ver, str, prev) ==
    [ kind |-> job.kind, w |-> job.w, h |-> job.h, index |-> job.index,
      size |-> size, version |-> ver, stream |-> str,
      repeat |-> Job(prev.kind, prev.w, prev.h, prev.index) = job ]

NoReply == [state |-> "none", value |-> <<0, 0>>]

Init ==
    /\ queue = << >>
    /\ display0 \in Sizes
    /\ display_size = [client |-> display0, server |-> display0]
    /\ version = 0
    /\ stream = [screen |-> {}, audio |-> 0]
    /\ nextIndex = 1
    /\ handle = [i \in Indices |-> "none"]
    /\ sizeReply = NoReply
    /\ startReply = "none"
    /\ calls = 0
    /\ lastHandled = NoHandled
    /\ relay = [i \in Indices |-> NoRelay]
    /\ hist = NewHist(display_size)
    /\ input = NewInput
    /\ sound = NewSound
    /\ counter = NewCounter
    /\ capture = NewCapture
    /\ loop = NewLoop

\* ------------------------------------------------------------------------
\* Callers of the actor (protocol server tasks)
\* ------------------------------------------------------------------------
\* RdpServerDisplay::size: job_sender.send(GetSize).await; the send suspends
\* while the channel is full
Size ==
    /\ calls < MaxCalls
    /\ Len(queue) < QueueCap
    /\ queue' = Append(queue, GetSizeJob)
    /\ calls' = calls + 1
    /\ UNCHANGED << actorVars, handle, sizeReply, startReply, lastHandled,
                    display0, relay >>
    /\ hist' = HistSent(hist)
    /\ UNCHANGED << input, sound, counter, capture, loop >>

\* the receiver of the channel exists: the loop has not ended
ChannelOpen == loop.state \in { "running", "waiting" }

\* RdpServerDisplay::updates: job_sender.send(CaptureStart).await
Updates ==
    /\ calls < MaxCalls
    /\ loop.callers
    /\ ChannelOpen
    /\ Len(queue) < QueueCap
    /\ queue' = Append(queue, CaptureStartJob)
    /\ calls' = calls + 1
    /\ UNCHANGED << actorVars, handle, sizeReply, startReply, lastHandled,
                    display0, relay >>
    /\ hist' = HistSent(hist)
    /\ UNCHANGED << input, sound, counter, capture, loop >>

\* `width as _`, `height as _`: a u32 dimension cast to the u16 of SetSize
AsU16(v) == v % 65536

\* RdpServerDisplay::request_layout with monitors whose dimensions() are
\* drawn from dims: try_send(SetSize) per monitor, errors are logged only
RequestLayoutFrom(dims, counts) ==
    /\ calls < MaxCalls
    /\ \E d \in dims, n \in counts :
          LET jobs == [i \in 1..n |-> SetSizeJob(AsU16(d[1]), AsU16(d[2]))]
          IN  /\ queue' = TrySendEach(queue, jobs)
              /\ hist' = HistTrySent(hist, queue, jobs, "logged")
    /\ calls' = calls + 1
    /\ UNCHANGED << actorVars, handle, sizeReply, startReply, lastHandled,
                    display0, relay >>
    /\ UNCHANGED << input, sound, counter, capture, loop >>

\* request_layout with monitors of the resolutions of Sizes
RequestLayout(counts) == RequestLayoutFrom(Sizes, counts)

\* RdpsndServerHandler::start with a supported format: try_send(Sound Start)
SoundStart ==
    /\ calls < MaxCalls
    /\ queue' = TrySend(queue, SoundStartJob)
    /\ calls' = calls + 1
    /\ UNCHANGED << actorVars, handle, sizeReply, startReply, lastHandled,
                    display0, relay >>
    /\ hist' = HistTrySent(hist, queue, << SoundStartJob >>, "ignored")
    /\ UNCHANGED << input, sound, counter, capture, loop >>

\* RdpsndServerHandler::stop: try_send(Sound Stop)
SoundStop ==
    /\ calls < MaxCalls
    /\ queue' = TrySend(queue, SoundStopJob)
    /\ calls' = calls + 1
    /\ UNCHANGED << actorVars, handle, sizeReply, startReply, lastHandled,
                    display0, relay >>
    /\ hist' = HistTrySent(hist, queue, << SoundStopJob >>, "ignored")
    /\ UNCHANGED << input, sound, counter, capture, loop >>

\* impl Drop for DisplayUpdates: try_send(CaptureStop(index)), result ignored
DropUpdates(q, index) == TrySend(q, CaptureStopJob(index))

DropHandle(i) ==
    /\ handle[i] = "live"
    /\ handle' = [handle EXCEPT ![i] = "dropped"]
    /\ queue' = IF ChannelOpen THEN DropUpdates(queue, i) ELSE queue
    /\ relay' = [relay EXCEPT ![i].consPc = "dropped", ![i].handed = NoSlot]
    /\ UNCHANGED << actorVars, sizeReply, startReply, calls, lastHandled,
                    display0 >>
    /\ hist' = IF ChannelOpen
               THEN HistTrySent(hist, queue, << CaptureStopJob(i) >>, "ignored")
               ELSE hist
    /\ UNCHANGED << input, sound, counter, capture, loop >>

\* ------------------------------------------------------------------------
\* The job actor: ScreenCaptureContext::handle_display_job / handle_sound_job
\* ------------------------------------------------------------------------
\* SCStream::add_output_handler(delegate, Screen): the handler is added next
\* to the ones already there
AddScreenOutput(str, index) == [str EXCEPT !.screen = @ \cup {index}]

\* mutant of RemoveScreenOutput: an index that is not attached detaches
\* whatever screen output there is
RemoveScreenOutput_Any(str, index) ==
    IF index \in str.screen THEN [str EXCEPT !.screen = @ \ {index}]
    ELSE [str EXCEPT !.screen = {}]

\* SCStream::remove_output_handler(index, Screen): no-op when index is not
\* an attached screen handler
RemoveScreenOutput(str, index) == [str EXCEPT !.screen = @ \ {index}]

\* SCStream::add_output_handler(delegate, Audio), result ignored
AddAudioOutput(str) == [str EXCEPT !.audio = @ + 1]

\* mutant of GetSizeReply: replies with the client-announced size
GetSizeReply_Client(screen_size) == screen_size.client

\* Job::GetSize: the pair sent on the oneshot
GetSizeReply(screen_size) == screen_size.server

\* mutant of SetSizeClosure: stores the size and always reports a change
SetSizeClosure_AlwaysModified(screen_size, width, height) ==
    [size |-> [screen_size EXCEPT !.client = <<width, height>>],
     modified |-> TRUE]

\* mutant of SetSizeClosure: a resize that also moves the capture size
SetSizeClosure_Resize(screen_size, width, height) ==
    IF screen_size.client # <<width, height>>
    THEN [size |-> [client |-> <<width, height>>, server |-> <<width, height>>],
          modified |-> TRUE]
    ELSE [size |-> screen_size, modified |-> FALSE]

\* mutant of SetSizeClosure: the width is stored, the height is not
SetSizeClosure_WidthOnly(screen_size, width, height) ==
    IF screen_size.client # <<width, height>>
    THEN [size |-> [screen_size EXCEPT !.client = <<width, screen_size.client[2]>>],
          modified |-> TRUE]
    ELSE [size |-> screen_size, modified |-> FALSE]

\* Job::SetSize: the closure given to send_if_modified; returns the new
\* value and whether the closure reported a modification
SetSizeClosure(screen_size, width, height) ==
    IF screen_size.client # <<width, height>>
    THEN [size |-> [screen_size EXCEPT !.client = <<width, height>>],
          modified |-> TRUE]
    ELSE [size |-> screen_size, modified |-> FALSE]

\* watch::Sender::send_if_modified: receivers are notified (the version is
\* bumped) iff the closure returned true
SendIfModified(ver, modified) == IF modified THEN ver + 1 ELSE ver

\* `while let Some(job) = job_receiver.recv().await`: a job is there and
\* the loop takes it
Recv ==
    /\ ChannelOpen
    /\ queue # << >>
    /\ loop' = [loop EXCEPT !.state = "running"]

\* history: the job being handled and the actor state it is handled in
Record ==
    lastHandled' = Handled(Head(queue), display_size, version, stream, lastHandled)

HandleGetSize ==
    /\ Recv
    /\ Head(queue).kind = "GetSize"
    /\ queue' = Tail(queue)
    /\ \E rxAlive \in BOOLEAN :
          sizeReply' = IF rxAlive
                       THEN [state |-> "delivered",
                             value |-> GetSizeReply(display_size)]
                       ELSE [state |-> "dropped",
                             value |-> GetSizeReply(display_size)]
    /\ Record
    /\ UNCHANGED << actorVars, handle, startReply, calls, display0, relay >>
    /\ hist' = HistReceived(hist)
    /\ UNCHANGED << input, sound, counter, capture >>

HandleSetSize ==
    /\ Recv
    /\ Head(queue).kind = "SetSize"
    /\ queue' = Tail(queue)
    /\ LET r == SetSizeClosure(display_size, Head(queue).w, Head(queue).h)
       IN  /\ display_size' = r.size
           /\ version' = SendIfModified(version, r.modified)
    /\ Record
    /\ UNCHANGED << stream, nextIndex, handle, sizeReply, startReply, calls,
                    display0, relay >>
    /\ hist' = [HistReceived(hist) EXCEPT !.held = @ \cup
                  { [client |-> << Head(queue).w, Head(queue).h >>,
                     server |-> display_size.server] }]
    /\ UNCHANGED << input, sound, counter, capture >>

\* mutant of HandleCaptureStart: the output stays registered although the
\* native attach reported a failure
HandleCaptureStart_PartialAttach ==
    /\ Recv
    /\ Head(queue).kind = "CaptureStart"
    /\ \E rxAlive \in BOOLEAN :
          /\ stream' = AddScreenOutput(stream, nextIndex)
          /\ startReply' = IF rxAlive THEN "error" ELSE "error-dropped"
          /\ queue' = Tail(queue)
          /\ hist' = HistReceived(hist)
          /\ UNCHANGED << nextIndex, relay, handle >>
    /\ lastHandled' = Handled(Head(queue), display_size, version, stream,
                              lastHandled)
    /\ UNCHANGED << display_size, version, sizeReply, calls, display0 >>
    /\ UNCHANGED << input, sound, counter, capture >>

\* Job::CaptureStart: a new triple buffer and Notify, then
\* add_output_handler; attachOk is whether the native attach returned an
\* index, rxAlive whether the updates() caller still awaits the oneshot.
\* A DisplayUpdates that cannot be delivered is dropped on the spot, which
\* runs its Drop. builds are the settings of overflow checks the program
\* may be built with: when the capacity `4 * width * height` panics, the
\* task is unwound, which drops the context and the oneshot sender.
HandleCaptureStartIn(builds) ==
    /\ ChannelOpen
    /\ queue # << >>
    /\ Head(queue).kind = "CaptureStart"
    /\ \E overflow_checks \in builds, attachOk \in BOOLEAN,
          rxAlive \in BOOLEAN :
          IF SlotCapacity(display_size.server, overflow_checks).panic
          THEN /\ loop' = [loop EXCEPT !.state = "panicked",
                                       !.context = FALSE]
               /\ startReply' = "aborted"
               /\ queue' = Tail(queue)
               /\ hist' = HistReceived(hist)
               /\ UNCHANGED << stream, nextIndex, relay, handle >>
          ELSE /\ loop' = [loop EXCEPT !.state = "running"]
               /\ IF attachOk
                  THEN /\ stream' = AddScreenOutput(stream, nextIndex)
                       /\ nextIndex' = nextIndex + 1
                       /\ relay' = [relay EXCEPT ![nextIndex] =
                                       IF rxAlive THEN NewRelay
                                       ELSE [NewRelay EXCEPT !.consPc = "dropped"]]
                       /\ handle' = [handle EXCEPT ![nextIndex] =
                                       IF rxAlive THEN "live" ELSE "dropped"]
                       /\ startReply' = IF rxAlive THEN "handle" ELSE "dropped"
                       /\ queue' = IF rxAlive THEN Tail(queue)
                                   ELSE DropUpdates(Tail(queue), nextIndex)
                       /\ hist' = IF rxAlive THEN HistReceived(hist)
                                  ELSE HistTrySent(HistReceived(hist), Tail(queue),
                                                   << CaptureStopJob(nextIndex) >>,
                                                   "ignored")
                  ELSE /\ startReply' = IF rxAlive THEN "error" ELSE "error-dropped"
                       /\ queue' = Tail(queue)
                       /\ hist' = HistReceived(hist)
                       /\ UNCHANGED << stream, nextIndex, relay, handle >>
    /\ Record
    /\ UNCHANGED << display_size, version, sizeReply, calls, display0 >>
    /\ UNCHANGED << input, sound, counter, capture >>

\* Job::CaptureStart in a build without overflow checks (the release
\* profile)
HandleCaptureStart == HandleCaptureStartIn({ FALSE })

HandleCaptureStop ==
    /\ Recv
    /\ Head(queue).kind = "CaptureStop"
    /\ queue' = Tail(queue)
    /\ stream' = RemoveScreenOutput(stream, Head(queue).index)
    /\ Record
    /\ UNCHANGED << display_size, version, nextIndex, handle, sizeReply,
                    startReply, calls, display0, relay >>
    /\ hist' = HistReceived(hist)
    /\ UNCHANGED << input, sound, counter, capture >>

\* sound::Job::Start
HandleSoundStart ==
    /\ Recv
    /\ Head(queue).kind = "SoundStart"
    /\ queue' = Tail(queue)
    /\ stream' = AddAudioOutput(stream)
    /\ Record
    /\ UNCHANGED << display_size, version, nextIndex, handle, sizeReply,
                    startReply, calls, display0, relay >>
    /\ hist' = HistReceived(hist)
    /\ UNCHANGED << input, sound, counter, capture >>

\* sound::Job::Stop: only logs, remove_output_handler is commented out
HandleSoundStop ==
    /\ Recv
    /\ Head(queue).kind = "SoundStop"
    /\ queue' = Tail(queue)
    /\ Record
    /\ UNCHANGED << actorVars, handle, sizeReply, startReply, calls,
                    display0, relay >>
    /\ hist' = HistReceived(hist)
    /\ UNCHANGED << input, sound, counter, capture >>

\* ------------------------------------------------------------------------
\* Frame relay operations
\* ------------------------------------------------------------------------
\* mutant of TBPublish: the written slot is published but the producer
\* keeps it as its input slot
TBPublish_KeepInput(tb) == [tb EXCEPT !.back = tb.input, !.dirty = TRUE]

\* triple_buffer::Input::publish: the input slot becomes the back buffer,
\* marked dirty, and the former back buffer becomes the input slot
TBPublish(tb) ==
    [tb EXCEPT !.input = tb.back, !.back = tb.input, !.dirty = TRUE]

\* mutant of TBUpdate: the output takes the back slot without giving its
\* own slot back
TBUpdate_NoGiveBack(tb) ==
    IF tb.dirty THEN [tb EXCEPT !.output = tb.back, !.dirty = FALSE] ELSE tb

\* triple_buffer::Output::update: when the back buffer is dirty it is
\* swapped with the output slot and marked clean; otherwise nothing moves
TBUpdate(tb) ==
    IF tb.dirty
    THEN [tb EXCEPT !.output = tb.back, !.back = tb.output, !.dirty = FALSE]
    ELSE tb

\* convert_buffer on the input slot: set_len and the row copies are under
\* way (partial), then the header fields are stored and it returns true
WriteBegin(tb) == [tb EXCEPT !.slots[tb.input].partial = TRUE]

WriteEnd(tb, frame) == [tb EXCEPT !.slots[tb.input] = Slot(frame, FALSE)]

\* Notify::notify_waiters: a Notified future that exists is woken, no
\* permit is kept for a later notified()
NotifyWaiters(consPc) == IF consPc = "waiting" THEN "woken" ELSE consPc

\* mutant of SampleArrives: a sample the callback returns on still wakes
\* the consumer
SampleArrives_WakesOnDrop(i) ==
    /\ relay[i].exists
    /\ i \in stream.screen
    /\ relay[i].prodPc = "idle"
    /\ relay[i].frames < MaxFrames
    /\ \E usable \in BOOLEAN :
          relay' = [relay EXCEPT
                      ![i].frames = @ + 1,
                      ![i].prodPc = IF usable THEN "write" ELSE "idle",
                      ![i].tb = IF usable THEN WriteBegin(@) ELSE @,
                      ![i].consPc = IF usable THEN @ ELSE NotifyWaiters(@)]
    /\ UNCHANGED << queue, actorVars, handle, sizeReply, startReply, calls,
                    lastHandled, display0 >>
    /\ UNCHANGED << hist, input, sound, counter, capture, loop >>

\* did_output_sample_buffer, up to the first write into the input slot.
\* usable is FALSE for a sample the callback returns on (not a screen
\* sample, no frame info, status not Complete, no dirty rects, no pixel
\* buffer, pixel buffer lock failed).
SampleArrives(i) ==
    /\ relay[i].exists
    /\ i \in stream.screen
    /\ relay[i].prodPc = "idle"
    /\ relay[i].frames < MaxFrames
    /\ \E usable \in BOOLEAN :
          relay' = [relay EXCEPT
                      ![i].frames = @ + 1,
                      ![i].prodPc = IF usable THEN "write" ELSE "idle",
                      ![i].tb = IF usable THEN WriteBegin(@) ELSE @]
    /\ UNCHANGED << queue, actorVars, handle, sizeReply, startReply, calls,
                    lastHandled, display0 >>
    /\ UNCHANGED << hist, input, sound, counter, capture, loop >>

\* convert_buffer returns true
ConvertBuffer(i) ==
    /\ relay[i].prodPc = "write"
    /\ relay' = [relay EXCEPT ![i].tb = WriteEnd(@, relay[i].frames),
                              ![i].prodPc = "publish"]
    /\ UNCHANGED << queue, actorVars, handle, sizeReply, startReply, calls,
                    lastHandled, display0 >>
    /\ UNCHANGED << hist, input, sound, counter, capture, loop >>

\* mutant of Publish: the producer waits until the consumer has taken the
\* frame published before
Publish_WaitsForConsumer(i) ==
    /\ relay[i].prodPc = "publish"
    /\ ~relay[i].tb.dirty
    /\ relay' = [relay EXCEPT ![i].tb = TBPublish(@),
                              ![i].published = relay[i].frames,
                              ![i].prodPc = "notify"]
    /\ UNCHANGED << queue, actorVars, handle, sizeReply, startReply, calls,
                    lastHandled, display0 >>
    /\ UNCHANGED << hist, input, sound, counter, capture, loop >>

\* input_buffer.publish()
Publish(i) ==
    /\ relay[i].prodPc = "publish"
    /\ relay' = [relay EXCEPT ![i].tb = TBPublish(@),
                              ![i].published = relay[i].frames,
                              ![i].prodPc = "notify"]
    /\ UNCHANGED << queue, actorVars, handle, sizeReply, startReply, calls,
                    lastHandled, display0 >>
    /\ UNCHANGED << hist, input, sound, counter, capture, loop >>

\* mutant of Notify: one wake signal shared by every handle, so the
\* notification of one producer wakes the consumers of all handles
Notify_SharedSignal(i) ==
    /\ relay[i].prodPc = "notify"
    /\ relay' = [j \in Indices |->
                   [relay[j] EXCEPT
                      !.consPc = NotifyWaiters(@),
                      !.prodPc = IF j = i THEN "idle" ELSE @]]
    /\ counter' = [counter EXCEPT !.capture = IntervalUpdate(@, i, counter.now)]
    /\ UNCHANGED << queue, actorVars, handle, sizeReply, startReply, calls,
                    lastHandled, display0 >>
    /\ UNCHANGED << hist, input, sound, capture, loop >>

\* update_notifier.notify_waiters(), capture_counter.update() and the
\* return of the callback
Notify(i) ==
    /\ relay[i].prodPc = "notify"
    /\ relay' = [relay EXCEPT ![i].consPc = NotifyWaiters(@),
                              ![i].prodPc = "idle"]
    /\ counter' = [counter EXCEPT !.capture = IntervalUpdate(@, i, counter.now)]
    /\ UNCHANGED << queue, actorVars, handle, sizeReply, startReply, calls,
                    lastHandled, display0 >>
    /\ UNCHANGED << hist, input, sound, capture, loop >>

\* next_update, first poll: the Notified future is created and awaited
NextUpdate(i) ==
    /\ handle[i] = "live"
    /\ relay[i].consPc = "idle"
    /\ relay' = [relay EXCEPT ![i].consPc = "waiting"]
    /\ UNCHANGED << queue, actorVars, handle, sizeReply, startReply, calls,
                    lastHandled, display0 >>
    /\ UNCHANGED << hist, input, sound, counter, capture, loop >>

\* next_update after the wake-up: capture_receiver.update(), then the
\* output slot is peeked, send_counter.update(), and the slot's bytes are
\* handed out in the BitmapUpdate
NextUpdateReturns(i) ==
    /\ handle[i] = "live"
    /\ relay[i].consPc = "woken"
    /\ LET tb == TBUpdate(relay[i].tb)
       IN  relay' = [relay EXCEPT
                       ![i].tb = tb,
                       ![i].handed = tb.output,
                       ![i].returned = Append(@,
                           [frame |-> tb.slots[tb.output].frame,
                            latest |-> relay[i].published]),
                       ![i].consPc = "idle"]
    /\ counter' = [counter EXCEPT !.send = IntervalUpdate(@, i, counter.now)]
    /\ UNCHANGED << queue, actorVars, handle, sizeReply, startReply, calls,
                    lastHandled, display0 >>
    /\ UNCHANGED << hist, input, sound, capture, loop >>

Next ==
    \/ Size
    \/ Updates
    \/ RequestLayout(1..MaxMonitors)
    \/ SoundStart
    \/ SoundStop
    \/ \E i \in Indices : DropHandle(i)
    \/ HandleGetSize
    \/ HandleSetSize
    \/ HandleCaptureStart
    \/ HandleCaptureStop
    \/ HandleSoundStart
    \/ HandleSoundStop

Spec == Init /\ [][Next]_vars

\* ------------------------------------------------------------------------
\* RelaySpec: one capture handle, from the state in which the actor has
\* handled the first CaptureStart and updates() has returned its handle
\* ------------------------------------------------------------------------
RelayInit ==
    /\ queue = << >>
    /\ display0 \in Sizes
    /\ display_size = [client |-> display0, server |-> display0]
    /\ version = 0
    /\ stream = AddScreenOutput([screen |-> {}, audio |-> 0], 1)
    /\ nextIndex = 2
    /\ handle = [i \in Indices |-> IF i = 1 THEN "live" ELSE "none"]
    /\ sizeReply = NoReply
    /\ startReply = "handle"
    /\ calls = 1
    /\ lastHandled = Handled(CaptureStartJob, display_size, 0,
                             [screen |-> {}, audio |-> 0], NoHandled)
    /\ relay = [i \in Indices |-> IF i = 1 THEN NewRelay ELSE NoRelay]
    /\ hist = [NewHist(display_size) EXCEPT !.accepted = 1, !.last = 1]
    /\ input = NewInput
    /\ sound = NewSound
    /\ counter = NewCounter
    /\ capture = NewCapture
    /\ loop = NewLoop

RelayNext ==
    \/ SampleArrives(1)
    \/ ConvertBuffer(1)
    \/ Publish(1)
    \/ Notify(1)
    \/ NextUpdate(1)
    \/ NextUpdateReturns(1)
    \/ DropHandle(1)
    \/ HandleCaptureStop

RelaySpec == RelayInit /\ [][RelayNext]_vars

\* ------------------------------------------------------------------------
\* BurstSpec: the actor with callers that only start captures, announce
\* layouts of one or of MaxBurst monitors and drop their handles
\* ------------------------------------------------------------------------
BurstNext ==
    \/ Updates
    \/ RequestLayout({1, MaxBurst})
    \/ \E i \in Indices : DropHandle(i)
    \/ HandleSetSize
    \/ HandleCaptureStart
    \/ HandleCaptureStop

BurstSpec == Init /\ [][BurstNext]_vars

\* ------------------------------------------------------------------------
\* Properties
\* ------------------------------------------------------------------------
\* C1: at most one display output callback is attached to the capture
\* session in every reachable state; a CaptureStart handled while one is
\* attached adds no second attachment.
C1_AtMostOneDisplayOutput == Cardinality(stream.screen) <= 1

\* C2: every dropped DisplayUpdates handle gets its CaptureStop: as long as
\* the output of a dropped handle is still attached, a CaptureStop job
\* carrying its index is in the queue (so it is neither leaked nor stopped
\* twice), also when the queue was full at the drop.
C2_DroppedHandleIsStopped ==
    \A i \in Indices :
        (handle[i] = "dropped" /\ i \in stream.screen)
            => Cardinality({ k \in DOMAIN queue : queue[k] = CaptureStopJob(i) }) = 1

\* C3: a publish is never lost as a wake-up and never delivered twice: a
\* consumer suspended in next_update with no notification under way has no
\* unseen published frame, and a consumer that was woken has one.
C3_PublishWakesExactlyOnce ==
    \A i \in Indices :
        relay[i].exists =>
            /\ (relay[i].consPc = "waiting" /\ relay[i].prodPc # "notify")
                   => ~relay[i].tb.dirty
            /\ relay[i].consPc = "woken" => relay[i].tb.dirty

\* C4: a completed next_update returns the most recently published frame,
\* and no published frame is returned by more than one next_update.
C4_LatestFrameExactlyOnce ==
    \A i \in Indices :
        LET ret == relay[i].returned
        IN  \A j \in DOMAIN ret :
                /\ ret[j].frame = ret[j].latest
                /\ \A k \in DOMAIN ret : k # j => ret[k].frame # ret[j].frame

\* C5: the slot whose bytes the most recent next_update handed out is never
\* the producer's input slot and never holds a partially written frame.
C5_HandedSlotNotWritten ==
    \A i \in Indices :
        relay[i].handed # NoSlot =>
            /\ relay[i].handed # relay[i].tb.input
            /\ relay[i].handed = relay[i].tb.output
            /\ ~relay[i].tb.slots[relay[i].handed].partial

C5_Witness ==
    /\ relay[1].handed # NoSlot
    /\ relay[1].prodPc = "write"
    /\ relay[1].tb.slots[relay[1].tb.input].partial
    /\ Len(relay[1].returned) >= 1

\* C6: once the capture callback has a sample to publish, each of its steps
\* (write, publish, notify) is enabled whatever the consumer is doing.
C6_ProducerNeverWaits ==
    \A i \in Indices :
        relay[i].exists =>
            /\ relay[i].prodPc = "write" => ENABLED ConvertBuffer(i)
            /\ relay[i].prodPc = "publish" => ENABLED Publish(i)
            /\ relay[i].prodPc = "notify" => ENABLED Notify(i)

C6_Witness ==
    /\ relay[1].consPc = "dropped"
    /\ relay[1].prodPc = "publish"
    /\ relay[1].published >= 1
    /\ relay[1].tb.dirty

\* C7: a capture handle has exactly three frame slots, assigned one-to-one
\* to the producer, standby and consumer roles.
C7_ThreeSlotsThreeRoles ==
    \A i \in Indices :
        relay[i].exists =>
            /\ DOMAIN relay[i].tb.slots = 0..(NumSlots - 1)
            /\ { relay[i].tb.input, relay[i].tb.back, relay[i].tb.output }
                   = 0..(NumSlots - 1)

C7_Witness ==
    /\ relay[1].published >= 2
    /\ Len(relay[1].returned) >= 2
    /\ relay[1].tb.dirty

\* C8: handling SetSize(w,h) notifies the ScreenSize watchers iff (w,h)
\* differs from the stored client size, and handling the same SetSize(w,h)
\* again right after changes nothing and notifies nobody.
C8_SetSizeChanged == lastHandled.size.client # <<lastHandled.w, lastHandled.h>>

C8_SetSizeNotifiesIffChanged ==
    lastHandled.kind = "SetSize" =>
        /\ display_size.client = <<lastHandled.w, lastHandled.h>>
        /\ C8_SetSizeChanged => version = lastHandled.version + 1
        /\ ~C8_SetSizeChanged => version = lastHandled.version
        /\ lastHandled.repeat =>
              (display_size = lastHandled.size /\ version = lastHandled.version)

C8_Witness ==
    /\ lastHandled.kind = "SetSize"
    /\ lastHandled.repeat
    /\ version = lastHandled.version
    /\ version >= 1

\* C9: SetSize changes only the client component of ScreenSize: the server
\* component always equals its value at construction, and SetSize leaves
\* the attached display and audio outputs unchanged.
C9_SetSizeOnlyClient ==
    /\ display_size.server = display0
    /\ lastHandled.kind = "SetSize" =>
          /\ display_size.server = lastHandled.size.server
          /\ display_size.client = <<lastHandled.w, lastHandled.h>>
          /\ stream = lastHandled.stream

C9_Witness ==
    /\ lastHandled.kind = "SetSize"
    /\ display_size.client # display_size.server
    /\ stream.screen # {}

\* C10: GetSize replies with the server component of the ScreenSize current
\* when the job is handled and leaves ScreenSize, the attached outputs and
\* the watchers' notification state unchanged, also when the requester has
\* dropped its response channel.
C10_GetSizeRepliesServer ==
    lastHandled.kind = "GetSize" =>
        /\ sizeReply.state \in {"delivered", "dropped"}
        /\ sizeReply.value = lastHandled.size.server
        /\ display_size = lastHandled.size
        /\ version = lastHandled.version
        /\ stream = lastHandled.stream

C10_Witness ==
    /\ lastHandled.kind = "GetSize"
    /\ sizeReply.state = "dropped"
    /\ display_size.client # display_size.server
    /\ version >= 1

\* ------------------------------------------------------------------------
\* StopSpec: the actor with CaptureStop jobs for any output index, as
\* handle_display_job accepts them
\* ------------------------------------------------------------------------
InjectStop(i) ==
    /\ calls < MaxCalls
    /\ Len(queue) < QueueCap
    /\ queue' = Append(queue, CaptureStopJob(i))
    /\ calls' = calls + 1
    /\ hist' = HistSent(hist)
    /\ UNCHANGED << actorVars, handle, sizeReply, startReply, lastHandled,
                    display0, relay, input, sound, counter, capture, loop >>

StopNext ==
    \/ Updates
    \/ SoundStart
    \/ \E i \in Indices : InjectStop(i)
    \/ \E i \in Indices : DropHandle(i)
    \/ HandleCaptureStart
    \/ HandleCaptureStop
    \/ HandleSoundStart

StopSpec == Init /\ [][StopNext]_vars

\* C11: when the native attach fails while CaptureStart is handled, the
\* requester is sent an error, no display output is attached, ScreenSize is
\* unchanged and no DisplayUpdates exists for the start, so no CaptureStop
\* is emitted for it: every queued CaptureStop carries the index of a
\* handle that was created and dropped.
C11_StartFailed == startReply \in {"error", "error-dropped"}

C11_FailedStartLeavesNoTrace ==
    /\ \A k \in DOMAIN queue :
          queue[k].kind = "CaptureStop" =>
              /\ queue[k].index < nextIndex
              /\ handle[queue[k].index] = "dropped"
    /\ \A i \in Indices :
          /\ i >= nextIndex => (handle[i] = "none" /\ ~relay[i].exists)
          /\ i \in stream.screen => i < nextIndex
    /\ (lastHandled.kind = "CaptureStart" /\ C11_StartFailed) =>
          /\ stream = lastHandled.stream
          /\ display_size = lastHandled.size
          /\ version = lastHandled.version

C11_Witness ==
    /\ lastHandled.kind = "CaptureStart"
    /\ startReply = "error"
    /\ stream.screen # {}
    /\ nextIndex = 2

\* C12: CaptureStop(h) detaches the screen output h and nothing else (no
\* audio output, no other display output), and handling it again for the
\* detached h leaves the actor state as it is.
C12_CaptureStopIdempotent ==
    lastHandled.kind = "CaptureStop" =>
        /\ stream.screen = lastHandled.stream.screen \ {lastHandled.index}
        /\ stream.audio = lastHandled.stream.audio
        /\ display_size = lastHandled.size
        /\ version = lastHandled.version
        /\ lastHandled.repeat => stream = lastHandled.stream

C12_Witness ==
    /\ lastHandled.kind = "CaptureStop"
    /\ lastHandled.repeat
    /\ stream.screen # {}
    /\ stream.audio >= 1

\* C13: a request/response job (CaptureStart, CaptureStop) that meets a
\* full queue is never discarded with the error ignored; only the
\* fire-and-forget SetSize is dropped, and dropping it leaves ScreenSize
\* as it is.
C13_NoSilentDiscard ==
    \A d \in hist.discarded :
        /\ d.job.kind \in {"CaptureStart", "CaptureStop"} => d.how # "ignored"
        /\ d.job.kind = "SetSize" => d.how = "logged"

\* C14: the actor handles the accepted jobs one at a time in the order of
\* their acceptance, each exactly once: the queued jobs carry the order
\* numbers that follow the one handled last, without gap or repetition.
C14_FifoExactlyOnce ==
    /\ Len(hist.tickets) = Len(queue)
    /\ hist.tickets = [k \in 1..Len(queue) |-> hist.last + k]
    /\ hist.accepted = hist.last + Len(queue)

C14_Witness ==
    /\ hist.last >= 2
    /\ Len(queue) >= 2
    /\ lastHandled.kind \in {"SoundStart", "SoundStop"}
    /\ \E k \in DOMAIN queue : queue[k].kind \in {"GetSize", "CaptureStart"}
    /\ \E k \in DOMAIN queue : queue[k].kind = "CaptureStop"

\* ------------------------------------------------------------------------
\* Input translator: InputHandler::keyboard and InputHandler::mouse
\* ------------------------------------------------------------------------
notInput ==
    << queue, display_size, version, stream, nextIndex, handle, sizeReply,
       startReply, calls, lastHandled, display0, relay, hist, sound,
       counter, capture, loop >>

\* scan codes the client sends: the four modifiers, a letter, two codes
\* without a table entry, and the three untranslatable keys
KeyCodes ==
    { <<91, TRUE>>, <<29, FALSE>>, <<42, FALSE>>, <<56, FALSE>>,
      <<30, FALSE>>, <<54, FALSE>>, <<29, TRUE>> } \cup UnsupportedKeys

\* UTF-16 units of UnicodePressed / UnicodeReleased
UnicodeChars == { 97 }

\* VerticalScroll values
ScrollValues == { -1, 1 }

\* the state a call starts from
Before ==
    [ modifier_state |-> input.modifier_state,
      down_mouse_button |-> input.down_mouse_button,
      last_mouse_point |-> input.last_mouse_point ]

Incoming(kind, code, extended) ==
    [kind |-> kind, code |-> code, extended |-> extended]

\* keyboard(Pressed { code, extended }) and keyboard(Released { .. });
\* created: CGEvent::new_keyboard_event returned Some
KeyboardKey(code, extended, pressed, created) ==
    LET c == ConvertNonUnicodeKey(code, extended, pressed, input.modifier_state)
    IN  /\ input' = [input EXCEPT
              !.modifier_state = c.modifier,
              !.before = Before,
              !.event = Incoming(IF pressed THEN "Pressed" ELSE "Released",
                                 code, extended),
              !.effect = IF c.key = NoKey \/ ~created THEN NoEffect("error")
                         ELSE KeyEffect(c.key, pressed,
                                        ApplyModifierToEvent(c.modifier), 0)]
        /\ UNCHANGED notInput

\* keyboard(UnicodePressed(code)) and keyboard(UnicodeReleased(code))
KeyboardUnicode(ch, pressed, created) ==
    /\ input' = [input EXCEPT
          !.before = Before,
          !.event = Incoming(IF pressed THEN "UnicodePressed"
                             ELSE "UnicodeReleased", ch, FALSE),
          !.effect = IF ~created THEN NoEffect("error")
                     ELSE KeyEffect(0, pressed, {}, ch)]
    /\ UNCHANGED notInput

\* keyboard(Synchronize(..)): Err("Unhandled event")
KeyboardOther ==
    /\ input' = [input EXCEPT
          !.before = Before,
          !.event = Incoming("Synchronize", 0, FALSE),
          !.effect = NoEffect("error")]
    /\ UNCHANGED notInput

\* mutant of MouseButton: a release clears the slot only when it holds the
\* released button
MouseButton_ReleaseOwn(button, pressed, created) ==
    /\ input' = [input EXCEPT
          !.down_mouse_button = IF pressed THEN button
                                ELSE IF @ = button THEN "None" ELSE @,
          !.last_button = [button |-> button, pressed |-> pressed],
          !.before = Before,
          !.event = Incoming(IF pressed THEN "ButtonPressed"
                             ELSE "ButtonReleased", 0, FALSE),
          !.effect = IF ~created THEN NoEffect("failed")
                     ELSE MouseEffect(IF pressed THEN "MouseDown" ELSE "MouseUp",
                                      button, input.last_mouse_point)]
    /\ UNCHANGED notInput

\* mouse(LeftPressed | LeftReleased | RightPressed | RightReleased);
\* created: CGEvent::new_mouse_event returned Some
MouseButton(button, pressed, created) ==
    /\ input' = [input EXCEPT
          !.down_mouse_button = IF pressed THEN button ELSE "None",
          !.last_button = [button |-> button, pressed |-> pressed],
          !.before = Before,
          !.event = Incoming(IF pressed THEN "ButtonPressed"
                             ELSE "ButtonReleased", 0, FALSE),
          !.effect = IF ~created THEN NoEffect("failed")
                     ELSE MouseEffect(IF pressed THEN "MouseDown" ELSE "MouseUp",
                                      button, input.last_mouse_point)]
    /\ UNCHANGED notInput

\* the Move arm with a variant that ignores the held button
MouseMove_AlwaysCursor(x, y, created, err) ==
    LET screen_size == display_size
        point == ScalePoint(x, y, screen_size)
    IN  /\ input' = [input EXCEPT
              !.last_mouse_point = point,
              !.seen = screen_size,
              !.prev = input.moved,
              !.moved = [x |-> x, y |-> y, size |-> screen_size, point |-> point],
              !.before = Before,
              !.event = Incoming("Move", 0, FALSE),
              !.effect = [CursorEffect(point) EXCEPT !.value = IF err THEN 1 ELSE 0]]
        /\ UNCHANGED notInput

\* mouse(Move { x, y }); err: CGDisplayMoveCursorToPoint returned an error
MouseMove(x, y, created, err) ==
    LET screen_size == display_size
        point == ScalePoint(x, y, screen_size)
        down_button == input.down_mouse_button
    IN  /\ input' = [input EXCEPT
              !.last_mouse_point = point,
              !.seen = screen_size,
              !.prev = input.moved,
              !.moved = [x |-> x, y |-> y, size |-> screen_size, point |-> point],
              !.before = Before,
              !.event = Incoming("Move", 0, FALSE),
              !.effect =
                  IF down_button # "None"
                  THEN IF created
                       THEN MouseEffect(DragType(down_button), down_button, point)
                       ELSE NoEffect("failed")
                  ELSE [CursorEffect(point) EXCEPT !.value = IF err THEN 1 ELSE 0]]
        /\ UNCHANGED notInput

\* mouse(VerticalScroll { value })
MouseScroll(value, created) ==
    /\ input' = [input EXCEPT
          !.before = Before,
          !.event = Incoming("VerticalScroll", 0, FALSE),
          !.effect = IF created THEN ScrollEffect(value) ELSE NoEffect("failed")]
    /\ UNCHANGED notInput

\* mouse(_): any other event kind
MouseOther ==
    /\ input' = [input EXCEPT
          !.before = Before,
          !.event = Incoming("Other", 0, FALSE),
          !.effect = NoEffect("ignored")]
    /\ UNCHANGED notInput

\* the input translator alone, with the ScreenSize the server starts with
InputNext ==
    \/ \E k \in KeyCodes, pressed \in BOOLEAN, created \in BOOLEAN :
           KeyboardKey(k[1], k[2], pressed, created)
    \/ \E ch \in UnicodeChars, pressed \in BOOLEAN, created \in BOOLEAN :
           KeyboardUnicode(ch, pressed, created)
    \/ KeyboardOther
    \/ \E b \in {"Left", "Right"}, pressed \in BOOLEAN, created \in BOOLEAN :
           MouseButton(b, pressed, created)
    \/ \E created \in BOOLEAN, err \in BOOLEAN : MouseMove(640, 360, created, err)
    \/ \E v \in ScrollValues, created \in BOOLEAN : MouseScroll(v, created)
    \/ MouseOther

InputSpec == Init /\ [][InputNext]_vars

\* C16: a Pressed (Released) event for the scan code of Command, Control,
\* Shift or Option sets that modifier's flag to true (false) and leaves the
\* other three as they were; every other keyboard event, Unicode events
\* included, and every mouse event leaves all four flags as they were.
C16_ModifierFlags ==
    LET e == input.event
        b == input.before.modifier_state
        k == <<e.code, e.extended>>
    IN  IF e.kind \in {"Pressed", "Released"} /\ k \in DOMAIN ModifierKeys
        THEN /\ input.modifier_state[ModifierKeys[k]] = (e.kind = "Pressed")
             /\ \A f \in DOMAIN b \ {ModifierKeys[k]} : input.modifier_state[f] = b[f]
        ELSE input.modifier_state = b

C16_Witness ==
    /\ input.event = Incoming("Released", 29, FALSE)
    /\ input.before.modifier_state.control
    /\ ~input.modifier_state.control
    /\ input.modifier_state.shift
    /\ input.modifier_state.command
    /\ ~input.modifier_state.option

\* C17: every keyboard event the translator injects, Pressed, Released,
\* UnicodePressed and UnicodeReleased alike, carries a flag mask equal to
\* the set of modifiers held at that moment.
C17_MaskOnEveryKeyEvent ==
    input.effect.kind = "key" =>
        input.effect.flags = ApplyModifierToEvent(input.modifier_state)

\* C18 as stated: a Move with button B in the held-button slot injects
\* exactly one drag event for B at the scaled position; a Move with the
\* slot empty injects no event and only moves the cursor.
C18_MoveAlwaysDrags ==
    LET b == input.before.down_mouse_button
    IN  input.event.kind = "Move" =>
            IF b # "None"
            THEN /\ input.effect.kind = "mouse"
                 /\ input.effect.button = b
                 /\ input.effect.point = input.last_mouse_point
            ELSE /\ input.effect.kind = "cursor"
                 /\ input.effect.point = input.last_mouse_point

\* C18: a Move with button B in the held-button slot injects one drag
\* event for B at the scaled position unless the native event cannot be
\* created, and then injects nothing; it never moves the cursor directly.
\* A Move with the slot empty injects no event and only moves the cursor.
C18_MoveDragsUnlessCreationFails ==
    LET b == input.before.down_mouse_button
    IN  input.event.kind = "Move" =>
            /\ input.last_mouse_point = input.moved.point
            /\ input.down_mouse_button = b
            /\ IF b # "None"
               THEN \/ /\ input.effect.kind = "mouse"
                       /\ input.effect.button = b
                       /\ b = "Left" => input.effect.type = "LeftMouseDragged"
                       /\ b = "Right" => input.effect.type = "RightMouseDragged"
                       /\ input.effect.point = input.last_mouse_point
                    \/ input.effect.kind = "failed"
               ELSE /\ input.effect.kind = "cursor"
                    /\ input.effect.point = input.last_mouse_point

C18_Witness ==
    /\ input.event.kind = "Move"
    /\ input.before.down_mouse_button = "Right"
    /\ input.effect.kind = "mouse"
    /\ input.effect.type = "RightMouseDragged"
    /\ input.before.last_mouse_point # input.last_mouse_point

\* ------------------------------------------------------------------------
\* ScaleSpec: pointer moves over the 16-bit range while the client resizes
\* ------------------------------------------------------------------------
\* capture sizes of ScaleSpec: the display may be as large as u16 allows
ScaleSizes == Sizes \cup { <<MaxU16, MaxU16>> }

\* Move { x, y } inputs of ScaleSpec
MovePoints == { <<0, 0>>, <<640, 360>>, <<MaxU16, MaxU16>> }

ScaleInit ==
    /\ queue = << >>
    /\ display0 \in ScaleSizes
    /\ display_size = [client |-> display0, server |-> display0]
    /\ version = 0
    /\ stream = [screen |-> {}, audio |-> 0]
    /\ nextIndex = 1
    /\ handle = [i \in Indices |-> "none"]
    /\ sizeReply = NoReply
    /\ startReply = "none"
    /\ calls = 0
    /\ lastHandled = NoHandled
    /\ relay = [i \in Indices |-> NoRelay]
    /\ hist = NewHist(display_size)
    /\ input = NewInput
    /\ sound = NewSound
    /\ counter = NewCounter
    /\ capture = NewCapture
    /\ loop = NewLoop

ScaleNext ==
    \/ RequestLayout(1..1)
    \/ HandleSetSize
    \/ \E p \in MovePoints : MouseMove(p[1], p[2], TRUE, FALSE)

ScaleSpec == ScaleInit /\ [][ScaleNext]_vars

\* ResizeSpec: the actor's readers and writers of ScreenSize together with
\* the input translator's Move
ResizeNext ==
    \/ Size
    \/ Updates
    \/ RequestLayout(1..1)
    \/ HandleGetSize
    \/ HandleSetSize
    \/ HandleCaptureStart
    \/ MouseMove(640, 360, TRUE, FALSE)

ResizeSpec == Init /\ [][ResizeNext]_vars

\* C15: the ScreenSize a Move borrows, the one the actor handles GetSize
\* and CaptureStart with, and the one the actor holds are each the initial
\* value or the pair of one SetSize together with the capture size: never
\* the width of one SetSize with the height of another, never a client
\* size with a capture size it did not coexist with.
C15_ObservedSizeWasHeld ==
    /\ input.event.kind = "Move" => input.seen \in hist.held
    /\ lastHandled.kind \in {"GetSize", "CaptureStart"} =>
           lastHandled.size \in hist.held
    /\ display_size \in hist.held
    /\ \A s \in hist.held :
           /\ s.server = display0
           /\ s.client \in Sizes

C15_Witness ==
    /\ input.event.kind = "Move"
    /\ input.seen.client # display0
    /\ input.seen # display_size
    /\ lastHandled.kind = "GetSize"
    /\ lastHandled.size # input.seen
    /\ Cardinality(hist.held) >= 2

\* the halves of a * b, from the product of b with half of a
C19_Product(a, b) ==
    LET q == (a \div 2) * b
        low == 2 * (q % 65536) + (a % 2) * b
    IN  [hi |-> 2 * (q \div 65536) + (low \div 65536), lo |-> low % 65536]

\* C19: a Move sets the pointer to x * server_w / client_w and
\* y * server_h / client_h with the ScreenSize it borrowed: the quotient's
\* numerator is the exact product for every 16-bit input, the result is
\* (x, y) when client = server, a larger x (y) under the same ScreenSize
\* never gives a smaller result, and (640, 360) gives (1280, 720) for a
\* 1280x720 client on a 2560x1440 capture.
C19_MoveScalesExactly ==
    LET m == input.moved
        v == << m.x, m.y >>
        r == << m.point.x, m.point.y >>
        u == << input.prev.x, input.prev.y >>
        o == << input.prev.point.x, input.prev.point.y >>
    IN  input.event.kind = "Move" =>
          /\ input.last_mouse_point = m.point
          /\ \A a \in 1..2 :
               /\ r[a].den = m.size.client[a]
               /\ [hi |-> r[a].hi, lo |-> r[a].lo]
                      = C19_Product(v[a], m.size.server[a])
               /\ r[a].hi <= MaxU16 /\ r[a].lo <= MaxU16
               /\ v[a] <= 32767 =>
                      r[a].hi * 65536 + r[a].lo = v[a] * m.size.server[a]
               /\ m.size.client[a] = m.size.server[a] =>
                      [hi |-> r[a].hi, lo |-> r[a].lo] = C19_Product(v[a], r[a].den)
               /\ (input.prev.size = m.size /\ u[a] <= v[a]) =>
                      \/ o[a].hi < r[a].hi
                      \/ o[a].hi = r[a].hi /\ o[a].lo <= r[a].lo
          /\ ( /\ m.size = [client |-> <<1280, 720>>, server |-> <<2560, 1440>>]
               /\ v = <<640, 360>> ) =>
                 /\ r[1].hi * 65536 + r[1].lo = 1280 * r[1].den
                 /\ r[2].hi * 65536 + r[2].lo = 720 * r[2].den

C19_Witness ==
    /\ input.event.kind = "Move"
    /\ input.moved.x = MaxU16
    /\ input.moved.size = [client |-> <<1280, 720>>, server |-> <<MaxU16, MaxU16>>]
    /\ input.moved.point.x.hi = 65534
    /\ input.prev.x = 640
    /\ input.prev.size = input.moved.size

\* ------------------------------------------------------------------------
\* SoundSpec: the sound backend and the actor's sound jobs
\* ------------------------------------------------------------------------
\* RdpsndServerHandler::start(client_format)
SoundServerStart(formats) ==
    /\ calls < MaxCalls
    /\ LET format_idx == ChooseFormat(formats)
           ret == IF format_idx.some THEN Some(format_idx.value) ELSE Some(0)
       IN  /\ queue' = IF format_idx.some THEN TrySend(queue, SoundStartJob)
                       ELSE queue
           /\ hist' = IF format_idx.some
                      THEN HistTrySent(hist, queue, << SoundStartJob >>, "ignored")
                      ELSE hist
           /\ sound' = [ sound EXCEPT
                         !.called = TRUE,
                         !.supported = \E n \in DOMAIN formats :
                                           formats[n] \in GetFormats,
                         !.first = format_idx.value,
                         !.ret = ret,
                         !.enqueued = Len(queue') - Len(queue),
                         !.seen = @ \cup
                             { [ supported |-> \E n \in DOMAIN formats :
                                                   formats[n] \in GetFormats,
                                 ret |-> ret ] } ]
    /\ calls' = calls + 1
    /\ UNCHANGED << actorVars, handle, sizeReply, startReply, lastHandled,
                    display0, relay, input, counter, capture, loop >>

notSound ==
    << queue, display_size, version, stream, nextIndex, handle, sizeReply,
       startReply, calls, lastHandled, display0, relay, hist, input,
       counter, capture, loop >>

\* ServerEventSender::set_sender
SetSender ==
    /\ ~sound.sender
    /\ sound' = [sound EXCEPT !.sender = TRUE]
    /\ UNCHANGED notSound

\* AudioCaptureDelegate::did_output_sample_buffer of the i-th audio output
\* on a sound record snd; usable: the sample is of type Audio and has a
\* first audio buffer
DidOutputAudio(snd, i, usable) ==
    IF ~usable THEN snd
    ELSE [snd EXCEPT
            !.sink = IF snd.sender THEN Append(@, snd.ts[i]) ELSE @,
            !.ts[i] = FetchAdd(@, TsStep)]

\* the capture session hands one sample to its first n audio outputs
RECURSIVE DeliverAudio(_, _, _)
DeliverAudio(snd, n, usable) ==
    IF n = 0 THEN snd
    ELSE DidOutputAudio(DeliverAudio(snd, n - 1, usable), n, usable)

\* one sample batch reaches every attached audio output
AudioBatch(usable) ==
    /\ sound.batches < MaxBatches
    /\ stream.audio >= 1
    /\ LET snd == DeliverAudio(sound, stream.audio, usable)
       IN  sound' = [snd EXCEPT
               !.batches = @ + 1,
               !.batch = [ after_stop |-> lastHandled.kind = "SoundStop",
                           delivered |-> Len(snd.sink) - Len(sound.sink),
                           outputs |-> stream.audio ]]
    /\ UNCHANGED notSound

SoundNext ==
    \/ \E formats \in FormatLists : SoundServerStart(formats)
    \/ SoundStop
    \/ HandleSoundStart
    \/ HandleSoundStop
    \/ SetSender
    \/ \E usable \in BOOLEAN : AudioBatch(usable)

SoundSpec == Init /\ [][SoundNext]_vars

\* C20: start with no supported format in the list returns the
\* "unsupported" result and enqueues nothing; start with the first
\* supported format at position n returns n and enqueues exactly one Sound
\* Start job; the value returned tells the two outcomes apart.
C20_StartOutcomesDistinct ==
    /\ sound.called =>
           IF sound.supported
           THEN sound.ret = Some(sound.first) /\ sound.enqueued = 1
           ELSE sound.enqueued = 0
    /\ \A a, b \in sound.seen : a.ret = b.ret => a.supported = b.supported

C30_SlotFollowsLastButtonEvent ==
    /\ input.down_mouse_button \in {"None", "Left", "Right"}
    /\ input.down_mouse_button =
           IF input.last_button.pressed THEN input.last_button.button ELSE "None"
    /\ input.event.kind \in {"Move", "VerticalScroll"} =>
           input.down_mouse_button = input.before.down_mouse_button

C30_Witness ==
    /\ input.event.kind = "ButtonReleased"
    /\ input.last_button = [button |-> "Left", pressed |-> FALSE]
    /\ input.before.down_mouse_button = "Right"
    /\ input.down_mouse_button = "None"

\* C21: the timestamps of the Wave events in the sink are strictly
\* increasing over any sequence of sound jobs and batches, and two
\* consecutive ones differ by exactly the step.
C21_WaveTimestampsIncrease ==
    \A k \in 1..(Len(sound.sink) - 1) :
        /\ LessU32(sound.sink[k], sound.sink[k + 1])
        /\ sound.sink[k + 1] = FetchAdd(sound.sink[k], TsStep)

\* C22: once the actor has handled a Sound Stop, a batch that arrives
\* puts no Wave event in the sink.
C22_NoWaveAfterStop ==
    sound.batch.after_stop => sound.batch.delivered = 0

\* C23: at most one audio output is attached to the capture session, and
\* handling a sound job leaves the display attachment as it was.
C23_AtMostOneAudioOutput ==
    /\ stream.audio <= 1
    /\ lastHandled.kind \in {"SoundStart", "SoundStop"} =>
           stream.screen = lastHandled.stream.screen

\* ------------------------------------------------------------------------
\* CounterSpec: the capture interval cell, its writers and its reader
\* ------------------------------------------------------------------------
notCounter ==
    << queue, display_size, version, stream, nextIndex, handle, sizeReply,
       startReply, calls, lastHandled, display0, relay, hist, input, sound,
       capture, loop >>

\* Instant::now() moves on
Tick ==
    /\ counter.now < MaxTime
    /\ counter' = [counter EXCEPT !.now = @ + 1]
    /\ UNCHANGED notCounter

\* capture_counter.update() in the callback of output w (the counter part
\* of Notify)
CaptureCounterUpdate(w) ==
    /\ relay[w].exists
    /\ w \in stream.screen
    /\ counter' = [counter EXCEPT !.capture = IntervalUpdate(@, w, counter.now)]
    /\ UNCHANGED notCounter

\* Interval::get on the capture interval (gui)
IntervalRead ==
    /\ counter' = [counter EXCEPT
          !.read = [ done |-> TRUE, value |-> IntervalGet(counter.capture),
                     before |-> counter.capture.interval ]]
    /\ UNCHANGED notCounter

CounterNext ==
    \/ Updates
    \/ HandleCaptureStart
    \/ Tick
    \/ \E w \in 1..2 : CaptureCounterUpdate(w)
    \/ IntervalRead

CounterSpec == Init /\ [][CounterNext]_vars

\* C25: a reader sees 1,000,000 microseconds until the first update() on
\* any writer of the cell, and after an update() the time between that
\* update() and the update() on the cell just before it; a read returns
\* the value last written.
C25_IntervalSinceLastUpdate ==
    LET c == counter.capture
    IN  /\ c.updates = 0 => c.interval = IntervalDefault
        /\ c.updates = 2 => c.interval = c.lastAt - c.prevAt
        /\ counter.read.done => counter.read.value = counter.read.before

\* ------------------------------------------------------------------------
\* FrameSpec: buffer sizing, sample geometry and the bitmap handed out
\* ------------------------------------------------------------------------
notCapture ==
    << queue, display_size, version, stream, nextIndex, handle, sizeReply,
       startReply, calls, lastHandled, display0, relay, hist, input, sound,
       counter, loop >>

\* capture sizes of FrameSpec: the two of Sizes and a 16384 pixels wide one
FrameSizes == Sizes \cup { <<16384, 8640>> }

\* dirty rectangles of a sample of a pbw x pbh display
DirtyRects(pbw, pbh) ==
    { Rect(x, y, w, h) : x \in {0, 10}, y \in {0, 10}, w \in {0, 5}, h \in {0, 5} }
    \cup { Rect(0, 0, pbw, 1), Rect(0, 0, pbw, pbh) }

\* frame_info.dirty_rects() of one sample, of any of the displays
DirtyRectLists ==
    LET all == UNION { DirtyRects(d[1], d[2]) : d \in FrameSizes }
    IN  UNION { [1..n -> all] : n \in 0..MaxRects }

FrameInit ==
    /\ queue = << >>
    /\ display0 \in FrameSizes
    /\ display_size = [client |-> display0, server |-> display0]
    /\ version = 0
    /\ stream = [screen |-> {}, audio |-> 0]
    /\ nextIndex = 1
    /\ handle = [i \in Indices |-> "none"]
    /\ sizeReply = NoReply
    /\ startReply = "none"
    /\ calls = 0
    /\ lastHandled = NoHandled
    /\ relay = [i \in Indices |-> NoRelay]
    /\ hist = NewHist(display_size)
    /\ input = NewInput
    /\ sound = NewSound
    /\ counter = NewCounter
    /\ capture = NewCapture
    /\ loop = NewLoop

\* Job::CaptureStart: the CapturedData the three slots are cloned from
AllocateSlots(overflow_checks) ==
    /\ ~capture.alloc.done
    /\ LET server == display_size.server
           c == SlotCapacity(server, overflow_checks)
       IN  capture' = [capture EXCEPT
               !.alloc = [done |-> TRUE, server |-> server,
                          panic |-> c.panic, value |-> c.value],
               !.data = IF c.panic THEN @
                        ELSE CapturedData(0, 0, server[1], server[2], 0, FALSE)]
    /\ UNCHANGED notCapture

\* did_output_sample_buffer for a complete screen sample with dirty rects
\* and a pixel buffer, convert_buffer returning true
DidOutputSample(rects) ==
    /\ capture.alloc.done /\ ~capture.alloc.panic
    /\ ~capture.data.written
    /\ \A k \in DOMAIN rects :
           rects[k] \in DirtyRects(display_size.server[1], display_size.server[2])
    /\ LET pbw == display_size.server[1]
           pbh == display_size.server[2]
       IN  capture' = [capture EXCEPT
               !.sample = [rects |-> rects, pbw |-> pbw, pbh |-> pbh],
               !.data = ConvertedData(SampleRegion(rects, pbw, pbh))]
    /\ UNCHANGED notCapture

\* next_update once woken: the BitmapUpdate made of the published slot
NextUpdateBitmap(overflow_checks) ==
    /\ capture.data.written
    /\ ~capture.update.done
    /\ capture' = [capture EXCEPT
          !.update = [done |-> TRUE] @@ BitmapUpdate(capture.data, overflow_checks)]
    /\ UNCHANGED notCapture

FrameNext ==
    \/ \E overflow_checks \in BOOLEAN : AllocateSlots(overflow_checks)
    \/ \E rects \in DirtyRectLists :
           DidOutputSample(rects)
    \/ \E overflow_checks \in BOOLEAN : NextUpdateBitmap(overflow_checks)

FrameSpec == FrameInit /\ [][FrameNext]_vars

\* C26: for a sample with a non-empty list of dirty rectangles the
\* published (x, y, width, height) is their bounding box, x and y the
\* smallest origins, width and height reaching the largest x + w and
\* y + h; when that box has no width or no height the published frame is
\* the whole pixel buffer at (0, 0).
C26_PublishedIsBoundingBox ==
    LET rects == capture.sample.rects
        K == DOMAIN rects
        d == capture.data
    IN  (d.written /\ rects # << >>) =>
          LET bx == CHOOSE v \in { rects[k].x : k \in K } :
                        \A k \in K : v <= rects[k].x
              by == CHOOSE v \in { rects[k].y : k \in K } :
                        \A k \in K : v <= rects[k].y
              mx == CHOOSE v \in { rects[k].x + rects[k].width : k \in K } :
                        \A k \in K : v >= rects[k].x + rects[k].width
              my == CHOOSE v \in { rects[k].y + rects[k].height : k \in K } :
                        \A k \in K : v >= rects[k].y + rects[k].height
          IN  IF mx - bx = 0 \/ my - by = 0
              THEN << d.x, d.y, d.width, d.height >>
                       = << 0, 0, capture.sample.pbw, capture.sample.pbh >>
              ELSE << d.x, d.y, d.width, d.height >>
                       = << bx, by, mx - bx, my - by >>

\* C27: CaptureStart sizes a slot to 4 x server width x server height
\* bytes, the product neither overflowing nor wrapping, and handling the
\* job does not abort the actor loop.
C27_SlotCapacityExact ==
    capture.alloc.done =>
        /\ ~capture.alloc.panic
        /\ capture.alloc.value =
               4 * capture.alloc.server[1] * capture.alloc.server[2]

\* C28: a bitmap update returned by next_update has width >= 1 and
\* height >= 1, a row stride of 4 x width and stride x height bytes of
\* data, and next_update returns one every time.
C28_BitmapUpdateWellFormed ==
    LET u == capture.update
    IN  u.done =>
          /\ ~u.panic
          /\ u.width >= 1 /\ u.height >= 1
          /\ u.stride = 4 * u.width
          /\ u.len = u.stride * u.height

\* C29: a sample the callback does not publish (not a screen sample, not
\* Complete, no dirty rects, no pixel buffer, pixel buffer lock failed)
\* rotates no slot and wakes nobody: the triple buffer, the consumer's
\* position and the capture interval are after it what they were before.
C29_DroppedSampleChangesNothing ==
    [][ \A i \in Indices :
          ( /\ relay[i].prodPc = "idle"
            /\ relay'[i].prodPc = "idle"
            /\ relay'[i].frames = relay[i].frames + 1 ) =>
              /\ relay'[i].tb = relay[i].tb
              /\ relay'[i].consPc = relay[i].consPc
              /\ relay'[i].published = relay[i].published
              /\ relay'[i].returned = relay[i].returned
              /\ counter' = counter ]_vars

C29_Witness ==
    /\ relay[1].prodPc = "idle"
    /\ relay[1].consPc = "waiting"
    /\ relay[1].published = 1
    /\ relay[1].frames = 2
    /\ Len(relay[1].returned) = 1
    /\ relay[1].returned[1].frame = 1

\* ------------------------------------------------------------------------
\* LayoutSpec: layouts whose monitors have any u32 dimensions, the actor's
\* SetSize and the input translator's Move
\* ------------------------------------------------------------------------
\* dimensions() of the monitors of a layout: (u32, u32) pairs, here the
\* resolutions of Sizes, an empty monitor and a width that is a multiple of
\* 2^16
LayoutDims == Sizes \cup { <<0, 0>>, <<65536, 720>> }

LayoutNext ==
    \/ RequestLayoutFrom(LayoutDims, 1..1)
    \/ HandleSetSize
    \/ MouseMove(640, 360, TRUE, FALSE)

LayoutSpec == Init /\ [][LayoutNext]_vars

\* C31: in every reachable state the client component of ScreenSize has a
\* non-zero width and a non-zero height, and the divisor a Move scaled
\* with was not zero, whatever layouts the remote endpoint announced
C31_ClientNeverZero ==
    /\ display_size.client[1] # 0
    /\ display_size.client[2] # 0
    /\ input.moved # NoMove =>
          /\ input.last_mouse_point.x.den # 0
          /\ input.last_mouse_point.y.den # 0

\* ------------------------------------------------------------------------
\* PairSpec: two capture handles side by side, from the state in which the
\* actor has handled two CaptureStart jobs and both updates() calls have
\* returned their handles; the handle that gets dropped is the first one
\* ------------------------------------------------------------------------
Pair == 1..2

PairInit ==
    /\ queue = << >>
    /\ display0 = <<1280, 720>>
    /\ display_size = [client |-> display0, server |-> display0]
    /\ version = 0
    /\ stream = AddScreenOutput(
                    AddScreenOutput([screen |-> {}, audio |-> 0], 1), 2)
    /\ nextIndex = 3
    /\ handle = [i \in Indices |-> IF i \in Pair THEN "live" ELSE "none"]
    /\ sizeReply = NoReply
    /\ startReply = "handle"
    /\ calls = 2
    /\ lastHandled =
          Handled(CaptureStartJob, display_size, 0,
                  AddScreenOutput([screen |-> {}, audio |-> 0], 1),
                  Handled(CaptureStartJob, display_size, 0,
                          [screen |-> {}, audio |-> 0], NoHandled))
    /\ relay = [i \in Indices |-> IF i \in Pair THEN NewRelay ELSE NoRelay]
    /\ hist = [NewHist(display_size) EXCEPT !.accepted = 2, !.last = 2]
    /\ input = NewInput
    /\ sound = NewSound
    /\ counter = NewCounter
    /\ capture = NewCapture
    /\ loop = NewLoop

PairNext ==
    \/ \E i \in Pair : SampleArrives(i)
    \/ \E i \in Pair : ConvertBuffer(i)
    \/ \E i \in Pair : Publish(i)
    \/ \E i \in Pair : Notify(i)
    \/ \E i \in Pair : NextUpdate(i)
    \/ \E i \in Pair : NextUpdateReturns(i)
    \/ DropHandle(1)
    \/ HandleCaptureStop

PairSpec == PairInit /\ [][PairNext]_vars

\* C32: every capture handle has its own triple buffer and its own wake
\* signal: a step changes the relay of at most one handle, a waiting
\* consumer is woken only by the notification of its own producer, a
\* handle's buffer moves only in steps of its own producer or consumer, a
\* returned frame is the one in the handle's own output slot, and dropping
\* a handle queues at most a CaptureStop for that handle's own index
C32_HandlesAreIsolated ==
    [][ \A i \in Indices :
          /\ relay'[i] # relay[i] =>
                \A j \in Indices \ {i} : relay'[j] = relay[j]
          /\ (relay[i].consPc = "waiting" /\ relay'[i].consPc = "woken") =>
                (relay[i].prodPc = "notify" /\ relay'[i].prodPc = "idle")
          /\ relay'[i].tb # relay[i].tb =>
                \/ relay'[i].prodPc # relay[i].prodPc
                \/ relay'[i].consPc # relay[i].consPc
          /\ relay'[i].returned # relay[i].returned =>
                /\ Len(relay'[i].returned) = Len(relay[i].returned) + 1
                /\ relay'[i].returned[Len(relay'[i].returned)].frame
                      = relay'[i].tb.slots[relay'[i].tb.output].frame
          /\ (handle[i] = "live" /\ handle'[i] = "dropped") =>
                queue' \in { queue, Append(queue, CaptureStopJob(i)) }
      ]_vars

\* both handles have returned a frame of their own, handle 1 was dropped
\* with its CaptureStop queued, and the consumer of handle 2 still waits
C32_Witness ==
    /\ handle[1] = "dropped"
    /\ handle[2] = "live"
    /\ relay[1].returned # << >>
    /\ relay[2].returned # << >>
    /\ relay[1].published > 0
    /\ queue = << CaptureStopJob(1) >>
    /\ 2 \in stream.screen
    /\ relay[2].consPc = "waiting"

\* ------------------------------------------------------------------------
\* LoopSpec: the job loop, the senders of its channel and their drops, in
\* builds with and without overflow checks
\* ------------------------------------------------------------------------
\* some Sender of the job channel exists: the context's, the ScreenCapture's
\* (and its backends'), or the display_sender of a live DisplayUpdates
SendersAlive ==
    \/ loop.context
    \/ loop.callers
    \/ \E i \in Indices : handle[i] = "live"

\* the ScreenCapture and the backends cloned from it are dropped
DropScreenCapture ==
    /\ loop.callers
    /\ loop' = [loop EXCEPT !.callers = FALSE]
    /\ UNCHANGED << queue, actorVars, handle, sizeReply, startReply, calls,
                    lastHandled, display0, relay, hist, input, sound,
                    counter, capture >>

\* job_receiver.recv().await on an empty channel: pending while a Sender
\* exists, None (the loop ends, the task returns Ok and drops the context)
\* when there is none
RecvPending ==
    /\ loop.state = "running"
    /\ queue = << >>
    /\ loop' = IF SendersAlive
               THEN [loop EXCEPT !.state = "waiting"]
               ELSE [loop EXCEPT !.state = "stopped", !.context = FALSE]
    /\ UNCHANGED << queue, actorVars, handle, sizeReply, startReply, calls,
                    lastHandled, display0, relay, hist, input, sound,
                    counter, capture >>

LoopNext ==
    \/ Updates
    \/ DropScreenCapture
    \/ \E i \in Indices : DropHandle(i)
    \/ RecvPending
    \/ HandleCaptureStartIn(BOOLEAN)
    \/ HandleCaptureStop

LoopSpec == Init /\ [][LoopNext]_vars

\* C33: the job loop has ended only if the channel is closed, that is the
\* loop stopped on recv() returning None with no Sender left, and it has
\* not ended while the context exists, also after the ScreenCapture, the
\* backends and every DisplayUpdates were dropped
C33_LoopEndsOnlyOnClose ==
    /\ ~ChannelOpen =>
          /\ loop.state = "stopped"
          /\ ~SendersAlive
    /\ loop.context => ChannelOpen

====
